---------------------------- MODULE Spec2Model ----------------------------
(***************************************************************************)
(* A model of bank_data_extract.py: the field extraction rules of          *)
(* PDFProcessor.extract_info_from_pdf, the file name derivation of         *)
(* PDFProcessor.generate_new_filename and the batch run of                 *)
(* PDFProcessor.process_all_pdfs with its report.                          *)
(*                                                                         *)
(* Python strings are TLA+ strings; a character is a string of length 1.   *)
(***************************************************************************)
EXTENDS Integers, Sequences, FiniteSets, TLC

VARIABLES
    pc,                  \* position of the running call
    folder,              \* directory entries of folder_path, in os.listdir order
    pdf_files,           \* process_all_pdfs: the names ending in ".pdf"
    idx,                 \* process_all_pdfs: index of the next pdf_file of the for loop
    extracted_info_list, \* process_all_pdfs: the records collected so far
    output_txt_path,     \* process_all_pdfs: the local variable, "<unbound>" until assigned
    new_folder,          \* the NEW subfolder: "absent", "preexisting" or "created"
    new_files,           \* the files in NEW: name -> [src, complete]
    report_file,         \* NEW/extracted_info.txt: "absent", "partial" or the data written
    log,                 \* the logging calls made, in order
    copies,              \* the shutil.copy calls made, in order, with their outcome
    doc,                 \* extract_info_from_pdf: the document at pdf_path
    extracted_info,      \* the record returned by extract_info_from_pdf
    new_filename         \* the name returned by generate_new_filename

vars == <<pc, folder, pdf_files, idx, extracted_info_list, output_txt_path,
          new_folder, new_files, report_file, log, copies, doc,
          extracted_info, new_filename>>

batchVars == <<folder, pdf_files, idx, extracted_info_list, output_txt_path,
               new_folder, new_files, report_file, log, copies>>

callVars == <<doc, extracted_info, new_filename>>

-----------------------------------------------------------------------------
(* Bounds *)

MaxFrags == 3      \* a text is the concatenation of at most MaxFrags fragments
MaxEntries == 3    \* a folder holds at most MaxEntries directory entries

-----------------------------------------------------------------------------
(* Python string operations *)

None == <<>>               \* Python's None, the result of a failed extraction
Unbound == "<unbound>"     \* a local variable that was never assigned

Whitespace == {" ", "\t", "\n", "\r", "\f"}
Digits == {"0", "1", "2", "3", "4", "5", "6", "7", "8", "9"}
UpperLetters == {"A", "B", "C", "D", "E", "F", "G", "H", "I", "J", "K", "L", "M",
                 "N", "O", "P", "Q", "R", "S", "T", "U", "V", "W", "X", "Y", "Z"}
UpperOrDigit == UpperLetters \cup Digits

Range(f) == {f[i] : i \in DOMAIN f}

SetMin(S) == CHOOSE x \in S : \A y \in S : x <= y
SetMax(S) == CHOOSE x \in S : \A y \in S : x >= y

CharAt(s, i) == SubSeq(s, i, i)

\* s[p:].startswith(lit): the literal lit occurs in s at position p
StartsAt(s, p, lit) ==
    /\ p >= 1
    /\ p + Len(lit) - 1 <= Len(s)
    /\ SubSeq(s, p, p + Len(lit) - 1) = lit

\* str.endswith
EndsWith(s, suffix) ==
    /\ Len(suffix) <= Len(s)
    /\ SubSeq(s, Len(s) - Len(suffix) + 1, Len(s)) = suffix

\* every character of s[from..to] is in class, and the range lies within s
AllIn(s, from, to, class) ==
    /\ to <= Len(s)
    /\ \A k \in from..to : CharAt(s, k) \in class

\* the end of the longest run of characters of class starting at p:
\* the first position >= p whose character is not in class (Len(s)+1 if none)
RunEnd(s, p, class) ==
    SetMin({q \in p..(Len(s) + 1) : q = Len(s) + 1 \/ CharAt(s, q) \notin class})

\* str.replace(old, new) for a one-character old
RECURSIVE Replace(_, _, _)
Replace(s, old, new) ==
    IF s = "" THEN ""
    ELSE IF Len(s) = 1 THEN (IF s = old THEN new ELSE s)
    ELSE Replace(SubSeq(s, 1, Len(s) \div 2), old, new)
             \o Replace(SubSeq(s, (Len(s) \div 2) + 1, Len(s)), old, new)

\* str.strip()
Strip(s) ==
    LET keep == {k \in 1..Len(s) : CharAt(s, k) \notin Whitespace}
    IN  IF keep = {} THEN "" ELSE SubSeq(s, SetMin(keep), SetMax(keep))

\* a slice that stops one character early
PrefixOneShort(s, n) == IF Len(s) <= n THEN s ELSE SubSeq(s, 1, n - 1)

\* s[:n]
Prefix(s, n) == IF Len(s) <= n THEN s ELSE SubSeq(s, 1, n)

\* x or default, for a string x
OrDefault(x, default) == IF x = "" THEN default ELSE x

-----------------------------------------------------------------------------
(* The pattern rules of extract_info_from_pdf.  re.search returns the match *)
(* that starts leftmost in the text; each rule is given by the positions at *)
(* which its pattern matches and by the groups of the match at a position.  *)

Keys == {"Konto Inhaber", "Depotnummer", "ISIN", "Datum", "Dokumenttyp"}
KeyOrder == <<"Konto Inhaber", "Depotnummer", "ISIN", "Datum", "Dokumenttyp">>
Sentinel == "Nicht gefunden"

EXTRACTED_DATA_TEMPLATE == [k \in Keys |-> Sentinel]

\* the start of the leftmost match, 0 when the pattern matches nowhere
Search(matchStarts) == IF matchStarts = {} THEN 0 ELSE SetMin(matchStarts)

\* Frankfurt,\s(\d{2})\.(\d{2})\.(\d{4})
DateAt(s, p) ==
    /\ StartsAt(s, p, "Frankfurt,")
    /\ p + 20 <= Len(s)
    /\ CharAt(s, p + 10) \in Whitespace
    /\ AllIn(s, p + 11, p + 12, Digits)
    /\ CharAt(s, p + 13) = "."
    /\ AllIn(s, p + 14, p + 15, Digits)
    /\ CharAt(s, p + 16) = "."
    /\ AllIn(s, p + 17, p + 20, Digits)

date_match(s) == Search({p \in 1..Len(s) : DateAt(s, p)})

\* f"{group(3)}{group(2)}{group(1)}"
DateValue(s, p) ==
    SubSeq(s, p + 17, p + 20) \o SubSeq(s, p + 14, p + 15) \o SubSeq(s, p + 11, p + 12)

\* \((?P<isin>[A-Z0-9]{12})/[A-Z0-9]+\) at position r
ParenCodeAt(s, r) ==
    /\ r + 15 <= Len(s)
    /\ CharAt(s, r) = "("
    /\ AllIn(s, r + 1, r + 12, UpperOrDigit)
    /\ CharAt(s, r + 13) = "/"
    /\ CharAt(s, r + 14) \in UpperOrDigit
    /\ LET e == RunEnd(s, r + 14, UpperOrDigit)
       IN  e <= Len(s) /\ CharAt(s, e) = ")"

\* (Kauf|Verkauf): the length of the alternative matching at p, 0 if none
KaufLen(s, p) ==
    IF StartsAt(s, p, "Kauf") THEN 4
    ELSE IF StartsAt(s, p, "Verkauf") THEN 7
    ELSE 0

\* (Kauf|Verkauf)\s+.*?\(...\): the positions of "(" that the match starting
\* at p can reach: \s+ takes the whitespace run, .*? crosses no line break
KaufParens(s, p) ==
    LET a == p + KaufLen(s, p)
        w == RunEnd(s, a, Whitespace)
    IN  IF KaufLen(s, p) = 0 \/ w = a THEN {}
        ELSE {r \in w..Len(s) : /\ ParenCodeAt(s, r)
                                /\ \A k \in w..(r - 1) : CharAt(s, k) # "\n"}

kauf_isin_match(s) == Search({p \in 1..Len(s) : KaufParens(s, p) # {}})

\* group("isin") of the match at p: .*? is lazy, so the nearest "(" is taken
KaufIsinValue(s, p) ==
    LET r == SetMin(KaufParens(s, p)) IN SubSeq(s, r + 1, r + 12)

\* ISIN\s*:\s*([A-Z]{2}[A-Z0-9]{10}): the start of group 1, 0 if no match at p
LabelIsinStart(s, p) ==
    IF ~StartsAt(s, p, "ISIN") THEN 0
    ELSE LET c == RunEnd(s, p + 4, Whitespace)
         IN  IF c > Len(s) \/ CharAt(s, c) # ":" THEN 0
             ELSE LET d == RunEnd(s, c + 1, Whitespace)
                  IN  IF /\ d + 11 <= Len(s)
                         /\ AllIn(s, d, d + 1, UpperLetters)
                         /\ AllIn(s, d + 2, d + 11, UpperOrDigit)
                      THEN d ELSE 0

label_isin_match(s) == Search({p \in 1..Len(s) : LabelIsinStart(s, p) # 0})

LabelIsinValue(s, p) ==
    LET d == LabelIsinStart(s, p) IN SubSeq(s, d, d + 11)

\* Ihre Depotnummer:\s*(\d+): the start of group 1, 0 if no match at p
DepotStart(s, p) ==
    IF ~StartsAt(s, p, "Ihre Depotnummer:") THEN 0
    ELSE LET d == RunEnd(s, p + 17, Whitespace)
         IN  IF d <= Len(s) /\ CharAt(s, d) \in Digits THEN d ELSE 0

depot_match(s) == Search({p \in 1..Len(s) : DepotStart(s, p) # 0})

DepotValue(s, p) ==
    LET d == DepotStart(s, p) IN SubSeq(s, d, RunEnd(s, d, Digits) - 1)

\* (Herrn|Frau): the length of the alternative matching at p, 0 if none
SalutationLen(s, p) ==
    IF StartsAt(s, p, "Herrn") THEN 5
    ELSE IF StartsAt(s, p, "Frau") THEN 4
    ELSE 0

inhaber_match(s) == Search({p \in 1..Len(s) : SalutationLen(s, p) # 0})

\* (Herrn|Frau)\s*(.*?)(?:\n|$) with re.DOTALL: group 2 of the match at p.
\* \s* takes the whole whitespace run; the lazy .*? then stops at the first
\* line break, or at the end of the text
InhaberGroup2(s, p) ==
    LET q == RunEnd(s, p + SalutationLen(s, p), Whitespace)
        r == SetMin({k \in q..(Len(s) + 1) : k = Len(s) + 1 \/ CharAt(s, k) = "\n"})
    IN  SubSeq(s, q, r - 1)

InhaberValue(s, p) == Strip(Replace(InhaberGroup2(s, p), "\n", " "))

\* the alternatives of the document type pattern, in the order of the pattern;
\* an alternative is a literal, optionally followed by \s+ and one of tails
TypeVocabulary ==
    << [lit |-> "Sammelabrechnung", tails |-> <<>>],
       [lit |-> "Abrechnung", tails |-> <<>>],
       [lit |-> "Wertpapierabrechnung", tails |-> <<"Kauf", "Verkauf", "Vorabpauschale">>],
       [lit |-> "Storno", tails |-> <<>>],
       [lit |-> "Dividendenabrechnung", tails |-> <<>>],
       [lit |-> "Zinsabrechnung", tails |-> <<>>],
       [lit |-> "Steuerbescheinigung", tails |-> <<>>],
       [lit |-> "Kontoauszug", tails |-> <<>>],
       [lit |-> "Rechnung", tails |-> <<>>],
       [lit |-> "Gutschrift", tails |-> <<>>],
       [lit |-> "Beleg", tails |-> <<>>],
       [lit |-> "TransaktionsÃ¼bersicht", tails |-> <<>>] >>

\* the length of the match of alternative alt at p, 0 if it does not match
AltLen(s, p, alt) ==
    IF ~StartsAt(s, p, alt.lit) THEN 0
    ELSE IF alt.tails = <<>> THEN Len(alt.lit)
    ELSE LET a == p + Len(alt.lit)
             w == RunEnd(s, a, Whitespace)
             ok == {j \in 1..Len(alt.tails) : StartsAt(s, w, alt.tails[j])}
         IN  IF w = a \/ ok = {} THEN 0
             ELSE w + Len(alt.tails[SetMin(ok)]) - p

\* the alternatives matching at p
AltsAt(s, p) == {i \in 1..Len(TypeVocabulary) : AltLen(s, p, TypeVocabulary[i]) # 0}

\* a search that goes through the vocabulary in its order and takes the
\* first entry that occurs anywhere in the text
type_match_by_priority(s) ==
    LET occurring == {i \in 1..Len(TypeVocabulary) :
                         \E p \in 1..Len(s) : AltLen(s, p, TypeVocabulary[i]) # 0}
    IN  IF occurring = {} THEN 0
        ELSE SetMin({p \in 1..Len(s) :
                        AltLen(s, p, TypeVocabulary[SetMin(occurring)]) # 0})

type_match(s) == Search({p \in 1..Len(s) : AltsAt(s, p) # {}})

\* group(1) of the match at p: at one position, the first alternative wins
TypeValue(s, p) ==
    SubSeq(s, p, p + AltLen(s, p, TypeVocabulary[SetMin(AltsAt(s, p))]) - 1)

\* the ISIN rules tried in the opposite order
IsinValueLabelFirst(s) ==
    IF label_isin_match(s) # 0 THEN LabelIsinValue(s, label_isin_match(s))
    ELSE IF kauf_isin_match(s) # 0 THEN KaufIsinValue(s, kauf_isin_match(s))
    ELSE EXTRACTED_DATA_TEMPLATE["ISIN"]

\* the ISIN rules: the Kauf/Verkauf line first, the labeled field only if
\* the first search found nothing
IsinValue(s) ==
    IF kauf_isin_match(s) # 0 THEN KaufIsinValue(s, kauf_isin_match(s))
    ELSE IF label_isin_match(s) # 0 THEN LabelIsinValue(s, label_isin_match(s))
    ELSE EXTRACTED_DATA_TEMPLATE["ISIN"]

\* the record extract_info_from_pdf builds from the text of a document
ExtractedData(s) ==
    [k \in Keys |->
        CASE k = "Datum" ->
               IF date_match(s) # 0 THEN DateValue(s, date_match(s))
               ELSE EXTRACTED_DATA_TEMPLATE[k]
          [] k = "ISIN" -> IsinValue(s)
          [] k = "Depotnummer" ->
               IF depot_match(s) # 0 THEN DepotValue(s, depot_match(s))
               ELSE EXTRACTED_DATA_TEMPLATE[k]
          [] k = "Konto Inhaber" ->
               IF inhaber_match(s) # 0 THEN InhaberValue(s, inhaber_match(s))
               ELSE EXTRACTED_DATA_TEMPLATE[k]
          [] k = "Dokumenttyp" ->
               IF type_match(s) # 0 THEN TypeValue(s, type_match(s))
               ELSE EXTRACTED_DATA_TEMPLATE[k] ]

\* an extraction that returns the untouched template for an unreadable document
extract_info_or_template(d) ==
    IF d.readable THEN ExtractedData(d.text) ELSE EXTRACTED_DATA_TEMPLATE

\* extract_info_from_pdf: None when the document cannot be opened or read,
\* or when a page yields no text (the join raises), else the record
extract_info_from_pdf(d) ==
    IF d.readable THEN ExtractedData(d.text) ELSE None

-----------------------------------------------------------------------------
(* generate_new_filename *)

max_length == 50

generate_new_filename(info) ==
    LET truncated_inhaber == Prefix(OrDefault(info["Konto Inhaber"], "Unbekannt"), max_length)
        truncated_dokumenttyp == Prefix(OrDefault(info["Dokumenttyp"], "Unbekannt"), max_length)
        truncated_isin == Prefix(OrDefault(info["ISIN"], "Unbekannt"), max_length)
    IN  Replace(info["Datum"] \o "_" \o info["Depotnummer"] \o "_"
                  \o truncated_dokumenttyp \o "_" \o truncated_inhaber \o "_"
                  \o truncated_isin \o ".pdf",
                " ", "_")

-----------------------------------------------------------------------------
(* The report: generate_result_data and write_to_file *)

RECURSIVE IntToStr(_)
\* str(n) for n >= 0
IntToStr(n) ==
    LET digit == SubSeq("0123456789", (n % 10) + 1, (n % 10) + 1)
    IN  IF n < 10 THEN digit ELSE IntToStr(n \div 10) \o digit

RECURSIVE Repeat(_, _)
\* s * n
Repeat(s, n) == IF n <= 0 THEN "" ELSE s \o Repeat(s, n - 1)

RECURSIVE Join(_, _)
\* sep.join(lines)
Join(sep, lines) ==
    IF lines = <<>> THEN ""
    ELSE IF Len(lines) = 1 THEN lines[1]
    ELSE lines[1] \o sep \o Join(sep, Tail(lines))

\* the text of one entry of the report
EntryBlock(entry) ==
    Join("\n", [i \in 1..Len(KeyOrder) |-> KeyOrder[i] \o ": " \o entry[KeyOrder[i]]])
        \o "\n\n" \o Repeat("-", 50) \o "\n"

RECURSIVE EntryBlocks(_)
EntryBlocks(list) ==
    IF list = <<>> THEN "" ELSE EntryBlock(Head(list)) \o EntryBlocks(Tail(list))

generate_result_data(list) ==
    "Anzahl Dokumente: " \o IntToStr(Len(list)) \o "\n\n" \o EntryBlocks(list)

-----------------------------------------------------------------------------
(* process_all_pdfs *)

Absent == "<absent>"           \* no such file
PartialData == "<partial>"     \* a file whose writing broke off

\* the outcomes of shutil.copy and of write_to_file's open and write:
\* done, failed before the destination was opened, failed while writing
IoOutcomes == {"ok", "open_failed", "write_failed"}

\* the names of the directory entries; os.listdir returns them in arbitrary
\* order, and a folder lists its entries in the order of this sequence: the
\* names are labels, every order of contents is among the folders
Names == <<"a.pdf", "b.txt", "c.pdf", "d.pdf", "e.PDF">>

\* the texts of the documents of a batch
BatchTexts == {"", "Frau A", "Storno"}

\* the contents a directory entry of the given name can have
Contents(name) ==
    IF EndsWith(name, ".pdf")
    THEN {[name |-> name, readable |-> FALSE, text |-> ""]}
            \cup {[name |-> name, readable |-> TRUE, text |-> t] : t \in BatchTexts}
    ELSE {[name |-> name, readable |-> FALSE, text |-> ""]}

RECURSIVE Listings(_)
\* the listings of the entries named by a subsequence of names
Listings(names) ==
    IF names = <<>> THEN {<<>>}
    ELSE LET rest == Listings(Tail(names))
         IN  rest \cup {<<e>> \o r : e \in Contents(Head(names)), r \in rest}

\* the folders: listings of at most MaxEntries entries
Folders == {f \in Listings(Names) : Len(f) <= MaxEntries}

\* the directory entry of the given name
Entry(name) == folder[CHOOSE i \in 1..Len(folder) : folder[i].name = name]

\* os.listdir(folder_path)
listdir == [i \in 1..Len(folder) |-> folder[i].name]

RECURSIVE PdfNames(_)
\* [f for f in names if f.endswith(".pdf")]
PdfNames(names) ==
    IF names = <<>> THEN <<>>
    ELSE (IF EndsWith(Head(names), ".pdf") THEN <<Head(names)>> ELSE <<>>)
             \o PdfNames(Tail(names))

InitBatch ==
    /\ pc = "list"
    /\ folder \in Folders
    /\ pdf_files = <<>>
    /\ idx = 1
    /\ extracted_info_list = <<>>
    /\ output_txt_path = Unbound
    /\ new_folder \in {"absent", "preexisting"}
    /\ new_files = <<>>
    /\ report_file = Absent
    /\ log = <<>>
    /\ copies = <<>>
    /\ doc = None
    /\ extracted_info = None
    /\ new_filename = ""

\* lines 84-90: list the folder; with at least one pdf file, make NEW and
\* bind output_txt_path
ListPdfs ==
    /\ pc = "list"
    /\ pdf_files' = PdfNames(listdir)
    /\ IF pdf_files' # <<>>
       THEN /\ new_folder' = IF new_folder = "absent" THEN "created" ELSE new_folder
            /\ output_txt_path' = "NEW/extracted_info.txt"
       ELSE UNCHANGED <<new_folder, output_txt_path>>
    /\ pc' = "loop"
    /\ UNCHANGED <<folder, idx, extracted_info_list, new_files, report_file, log,
                   copies, callVars>>

\* shutil.copy(pdf_path, new_filepath) with the given outcome: the files of
\* NEW afterwards.  An existing file of that name is overwritten
CopyFile(files, pdf_file, name, outcome) ==
    CASE outcome = "ok" -> (name :> [src |-> pdf_file, complete |-> TRUE]) @@ files
      [] outcome = "write_failed" -> (name :> [src |-> pdf_file, complete |-> FALSE]) @@ files
      [] outcome = "open_failed" -> files

\* a loop that appends the record only after the copy went through
AppendRecordAfterCopy(list, info, outcome) ==
    IF outcome = "ok" THEN Append(list, info) ELSE list

\* line 96: the record is appended before the try of the copy, whatever the
\* outcome of the copy will be
AppendRecord(list, info, outcome) == Append(list, info)

\* lines 92-107: one iteration of the for loop
ProcessPdf ==
    /\ pc = "loop"
    /\ idx <= Len(pdf_files)
    /\ LET pdf_file == pdf_files[idx]
           info == extract_info_from_pdf(Entry(pdf_file))
       IN  IF info # None
           THEN \E outcome \in IoOutcomes :
                      LET name == generate_new_filename(info)
                      IN  /\ extracted_info_list' =
                                AppendRecord(extracted_info_list, info, outcome)
                          /\ new_files' = CopyFile(new_files, pdf_file, name, outcome)
                          /\ copies' = Append(copies, [file |-> pdf_file, name |-> name,
                                                       outcome |-> outcome])
                          /\ log' = Append(log,
                                [level |-> IF outcome = "ok" THEN "info" ELSE "error",
                                 call |-> "copy", file |-> pdf_file])
           ELSE /\ log' = Append(log, [level |-> "error", call |-> "extract",
                                       file |-> pdf_file])
                /\ UNCHANGED <<extracted_info_list, new_files, copies>>
    /\ idx' = idx + 1
    /\ UNCHANGED <<pc, folder, pdf_files, output_txt_path, new_folder, report_file,
                   callVars>>

\* line 109 with lines 121-143: after the loop, save_extracted_info.  Reading
\* output_txt_path raises UnboundLocalError when it was never assigned;
\* write_to_file logs its own failures
SaveExtractedInfo ==
    /\ pc = "loop"
    /\ idx > Len(pdf_files)
    /\ IF output_txt_path = Unbound
       THEN /\ pc' = "raised"
            /\ UNCHANGED <<report_file, log>>
       ELSE /\ \E outcome \in IoOutcomes :
                 /\ report_file' =
                       CASE outcome = "ok" -> generate_result_data(extracted_info_list)
                         [] outcome = "write_failed" -> PartialData
                         [] outcome = "open_failed" -> report_file
                 /\ log' = Append(log,
                       [level |-> IF outcome = "ok" THEN "info" ELSE "error",
                        call |-> "write", file |-> output_txt_path])
            /\ pc' = "done"
    /\ UNCHANGED <<folder, pdf_files, idx, extracted_info_list, output_txt_path,
                   new_folder, new_files, copies, callVars>>

Next == ListPdfs \/ ProcessPdf \/ SaveExtractedInfo

Spec == InitBatch /\ [][Next]_vars

-----------------------------------------------------------------------------
(* extract_info_from_pdf and generate_new_filename called on one document *)

\* the fragments the texts are put together from, one family per rule
HolderFrags == {"Frau", "Frau ", "Herrn ", "Maria", "Maria\n", "Mustermann\n", "\n"}
TypeFrags == {"Kontoauszug", "Sammelabrechnung", "Abrechnung", "Wertpapierabrechnung",
              "Kauf", " ", "kontoauszug"}
IsinFrags == {"Kauf ", "Verkauf", "10 Stück ", "(DE0001234567/A0B1C2)",
              "ISIN: US0378331005", "ISIN: DE0001234567", "\n"}
LongFrags == {"Frau ", "Maximilian Alexander von Mustermann ", "Wertpapierabrechnung",
              "                              ", "Kauf",
              "Ihre Depotnummer: 1234567890123456789012345678",
              "9012345678901234567890123456"}
DateFrags == {"Frankfurt,", " ", "05.03.2024", "5.3.2024", "Frankfurt, 31.12.2023"}

FragFamilies == {HolderFrags, TypeFrags, IsinFrags, LongFrags, DateFrags}

\* the concatenations of at most MaxFrags fragments of one family
Texts ==
    UNION {UNION {{Join("", f) : f \in [1..n -> F]} : n \in 0..MaxFrags}
           : F \in FragFamilies}

InitExtract ==
    /\ pc = "call"
    /\ doc \in {[readable |-> FALSE, text |-> ""]}
                  \cup {[readable |-> TRUE, text |-> t] : t \in Texts}
    /\ extracted_info = None
    /\ new_filename = ""
    /\ folder = <<>>
    /\ pdf_files = <<>>
    /\ idx = 1
    /\ extracted_info_list = <<>>
    /\ output_txt_path = Unbound
    /\ new_folder = "absent"
    /\ new_files = <<>>
    /\ report_file = Absent
    /\ log = <<>>
    /\ copies = <<>>

\* line 94: extracted_info = PDFProcessor.extract_info_from_pdf(pdf_path)
ExtractInfo ==
    /\ pc = "call"
    /\ extracted_info' = extract_info_from_pdf(doc)
    /\ pc' = "extracted"
    /\ UNCHANGED <<doc, new_filename, batchVars>>

\* lines 95, 99: if extracted_info: new_filename = generate_new_filename(...)
GenerateNewFilename ==
    /\ pc = "extracted"
    /\ extracted_info # None
    /\ new_filename' = generate_new_filename(extracted_info)
    /\ pc' = "named"
    /\ UNCHANGED <<doc, extracted_info, batchVars>>

NextExtract == ExtractInfo \/ GenerateNewFilename

SpecExtract == InitExtract /\ [][NextExtract]_vars

-----------------------------------------------------------------------------
(* Properties of the batch run, checked under Spec *)

\* the names among names whose document can be read and yields a record
Readable(names) == SelectSeq(names, LAMBDA n : Entry(n).readable)

\* the record of the document of the given name
RecordOf(name) == ExtractedData(Entry(name).text)

\* the number of occurrences of lit in s
CountOf(s, lit) == Cardinality({p \in 1..Len(s) : StartsAt(s, p, lit)})

\* the number of entries of a report: every entry ends with the separator
ReportEntries(data) == CountOf(data, "\n\n" \o Repeat("-", 50) \o "\n")

ReportWritten == report_file \notin {Absent, PartialData}

\* C1: a run on a folder without any entry ending in ".pdf" creates no NEW
\* subfolder, writes no report and completes normally, raising no error.
C1_ZeroPdfRunIsNoOp ==
    (PdfNames(listdir) = <<>> /\ pc \notin {"list", "loop"})
        => /\ new_folder # "created"
           /\ report_file = Absent
           /\ pc = "done"

\* C2: whichever copies fail, every document whose extraction succeeded has
\* exactly one record in the list and in the report, in listing order, and
\* every complete copy in NEW comes from a copy that succeeded; with
\* distinct derived names NEW holds as many complete copies as copies
\* succeeded.
C2_CopyFailureKeepsRecord ==
    pc = "done" =>
        LET ok == Readable(pdf_files)
            good == {i \in 1..Len(copies) : copies[i].outcome = "ok"}
            complete == {n \in DOMAIN new_files : new_files[n].complete}
        IN  /\ Len(extracted_info_list) = Len(ok)
            /\ \A i \in 1..Len(ok) : extracted_info_list[i] = RecordOf(ok[i])
            /\ ReportWritten =>
                  /\ StartsAt(report_file, 1,
                              "Anzahl Dokumente: " \o IntToStr(Len(ok)) \o "\n\n")
                  /\ ReportEntries(report_file) = Len(ok)
                  /\ \A i \in 1..Len(ok) :
                        CountOf(report_file, EntryBlock(RecordOf(ok[i])))
                            = Cardinality({j \in 1..Len(ok) : RecordOf(ok[j]) = RecordOf(ok[i])})
            /\ \A n \in complete :
                  \E i \in good : copies[i].file = new_files[n].src /\ copies[i].name = n
            /\ (\A i, j \in 1..Len(copies) : copies[i].name = copies[j].name => i = j)
                  => Cardinality(complete) = Cardinality(good)

\* three documents with distinct names, the second copy fails: three report
\* entries and two copied files
C2_Witness ==
    /\ pc = "done"
    /\ Len(copies) = 3
    /\ copies[1].outcome = "ok"
    /\ copies[2].outcome = "open_failed"
    /\ copies[3].outcome = "ok"
    /\ Cardinality({copies[i].name : i \in 1..3}) = 3
    /\ ReportWritten
    /\ ReportEntries(report_file) = 3
    /\ Cardinality(DOMAIN new_files) = 2

\* the pdf files the loop has gone through
Processed == SubSeq(pdf_files, 1, idx - 1)

\* the last copy call that opened the file of the given name in NEW
LastCopy(n) ==
    SetMax({i \in 1..Len(copies) : copies[i].name = n /\ copies[i].outcome # "open_failed"})

\* C3: a document whose extraction returns None has neither a copy in NEW
\* nor a record; the records, the copy calls, the files of NEW and the
\* report are those of the other documents alone, in their order.
C3_FailedExtractionIsSkipped ==
    LET ok == Readable(Processed)
        records == [i \in 1..Len(ok) |-> RecordOf(ok[i])]
    IN  /\ extracted_info_list = records
        /\ [i \in 1..Len(copies) |-> copies[i].file] = ok
        /\ \A i \in 1..Len(copies) : copies[i].name = generate_new_filename(records[i])
        /\ DOMAIN new_files =
              {copies[i].name : i \in {j \in 1..Len(copies) : copies[j].outcome # "open_failed"}}
        /\ \A n \in DOMAIN new_files :
              new_files[n] = [src |-> copies[LastCopy(n)].file,
                              complete |-> copies[LastCopy(n)].outcome = "ok"]
        /\ (pc = "done" /\ ReportWritten) => report_file = generate_result_data(records)

\* three documents, the second cannot be read: two records, two files
C3_Witness ==
    /\ pc = "done"
    /\ Len(pdf_files) = 3
    /\ Entry(pdf_files[1]).readable
    /\ ~Entry(pdf_files[2]).readable
    /\ Entry(pdf_files[3]).readable
    /\ Len(extracted_info_list) = 2
    /\ Cardinality(DOMAIN new_files) = 2
    /\ ReportWritten

\* C4: whatever the folder holds and whichever extractions, copies and
\* report writes fail, the run goes through every pdf file and ends
\* normally: no exception leaves process_all_pdfs.
C4_RunCompletesNormally ==
    /\ pc # "raised"
    /\ pc = "done" => idx = Len(pdf_files) + 1

\* C5: after a run in which no copy reported an error, NEW holds as many
\* copied files as there are records, also when documents yield equal
\* records.
C5_OneCopyPerRecord ==
    (pc = "done" /\ \A i \in 1..Len(copies) : copies[i].outcome = "ok")
        => Cardinality(DOMAIN new_files) = Len(extracted_info_list)

-----------------------------------------------------------------------------
(* Properties of the extraction and of the file name, checked under        *)
(* SpecExtract                                                             *)

Extracted == pc \in {"extracted", "named"} /\ extracted_info # None

\* the vocabulary entries that entry i of TypeVocabulary occurs in the text
EntryOccurs(s, i) == \E p \in 1..Len(s) : AltLen(s, p, TypeVocabulary[i]) # 0

\* the document type phrases, stated apart from the pattern
PlainPhrases == {"Sammelabrechnung", "Abrechnung", "Storno", "Dividendenabrechnung",
                 "Zinsabrechnung", "Steuerbescheinigung", "Kontoauszug", "Rechnung",
                 "Gutschrift", "Beleg", "TransaktionsÃ¼bersicht"}
PhraseTails == {"Kauf", "Verkauf", "Vorabpauschale"}

\* v is a phrase of the vocabulary
IsTypePhrase(v) ==
    \/ v \in PlainPhrases
    \/ \E t \in PhraseTails :
          /\ StartsAt(v, 1, "Wertpapierabrechnung")
          /\ EndsWith(v, t)
          /\ Len(v) > 20 + Len(t)
          /\ AllIn(v, 21, Len(v) - Len(t), Whitespace)

\* a phrase of the vocabulary starts at position p of s
PhraseAt(s, p) ==
    \/ \E v \in PlainPhrases : StartsAt(s, p, v)
    \/ /\ StartsAt(s, p, "Wertpapierabrechnung")
       /\ \E q \in (p + 21)..Len(s) :
             /\ AllIn(s, p + 20, q - 1, Whitespace)
             /\ \E t \in PhraseTails : StartsAt(s, q, t)

\* C6 as stated: when several vocabulary entries occur in the text, the
\* document type is an occurrence of the one that is first in the order of
\* the vocabulary.
C6_TypeByPriorityOrder ==
    (Extracted /\ Cardinality({i \in 1..Len(TypeVocabulary) : EntryOccurs(doc.text, i)}) >= 2)
        => LET s == doc.text
               first == SetMin({i \in 1..Len(TypeVocabulary) : EntryOccurs(s, i)})
           IN  \E p \in 1..Len(s) :
                  /\ AltLen(s, p, TypeVocabulary[first]) # 0
                  /\ extracted_info["Dokumenttyp"]
                        = SubSeq(s, p, p + AltLen(s, p, TypeVocabulary[first]) - 1)

\* C6 amended: the document type is the vocabulary phrase that starts
\* earliest in the text, as it is written there; without any phrase in the
\* text it is the sentinel.
C6_TypeByEarliestOccurrence ==
    Extracted =>
        LET s == doc.text
            v == extracted_info["Dokumenttyp"]
            starts == {p \in 1..Len(s) : PhraseAt(s, p)}
        IN  IF starts = {} THEN v = Sentinel
            ELSE IsTypePhrase(v) /\ StartsAt(s, SetMin(starts), v)

\* a text where "Sammelabrechnung", first in the order of the vocabulary,
\* comes after "Kontoauszug"
C6_Witness ==
    /\ Extracted
    /\ extracted_info["Dokumenttyp"] = "Kontoauszug"
    /\ \E p \in 1..Len(doc.text) : StartsAt(doc.text, p, "Sammelabrechnung")

\* C7: a name that spans several lines after the salutation is taken whole,
\* the line breaks replaced by spaces: "Frau Maria\nMustermann\n" gives the
\* account holder "Maria Mustermann".
C7_HolderSpansLines ==
    (Extracted /\ doc.text = "Frau Maria\nMustermann\n")
        => extracted_info["Konto Inhaber"] = "Maria Mustermann"

\* C8: a record has exactly the five fields, and no field is the empty
\* string: each is the sentinel or a non-empty match.
C8_FieldsNeverEmpty ==
    Extracted =>
        /\ DOMAIN extracted_info = Keys
        /\ \A k \in Keys : extracted_info[k] # ""

\* the codes of the Kauf/Verkauf lines of the text, and of its ISIN fields
TransactionCodes(s) ==
    {SubSeq(s, r + 1, r + 12) : r \in UNION {KaufParens(s, p) : p \in 1..Len(s)}}
LabelCodes(s) ==
    {LabelIsinValue(s, p) : p \in {q \in 1..Len(s) : LabelIsinStart(s, q) # 0}}

\* C9: a text with a Kauf/Verkauf line yields the code of such a line as
\* ISIN, wherever its "ISIN:" fields stand; the value of an "ISIN:" field
\* is taken only when the text has no Kauf/Verkauf line.
C9_TransactionLineIsinWins ==
    Extracted =>
        LET s == doc.text
            isin == extracted_info["ISIN"]
        IN  /\ TransactionCodes(s) # {} => isin \in TransactionCodes(s)
            /\ (TransactionCodes(s) = {} /\ LabelCodes(s) # {}) => isin \in LabelCodes(s)
            /\ (TransactionCodes(s) = {} /\ LabelCodes(s) = {}) => isin = Sentinel

\* an "ISIN:" field standing before a Kauf line with another code
C9_Witness ==
    /\ Extracted
    /\ label_isin_match(doc.text) # 0
    /\ kauf_isin_match(doc.text) # 0
    /\ label_isin_match(doc.text) < kauf_isin_match(doc.text)
    /\ LabelCodes(doc.text) \cap TransactionCodes(doc.text) = {}
    /\ extracted_info["ISIN"] \in TransactionCodes(doc.text)

\* a component cut to its first 50 characters
Cut(c) == IF Len(c) > 50 THEN SubSeq(c, 1, 50) ELSE c

\* <date>_<depotNumber>_<documentType>_<accountHolder>_<isin>.pdf
Assembled(date, depot, type, holder, isin) ==
    date \o "_" \o depot \o "_" \o Cut(type) \o "_" \o Cut(holder) \o "_" \o Cut(isin)
        \o ".pdf"

\* out is raw with every space replaced by an underscore
IsUnderscored(out, raw) ==
    /\ Len(out) = Len(raw)
    /\ \A k \in 1..Len(raw) :
          CharAt(out, k) = IF CharAt(raw, k) = " " THEN "_" ELSE CharAt(raw, k)

OrUnbekannt(c) == IF c = "" THEN "Unbekannt" ELSE c

=============================================================================
